---- MODULE Spec2Model ----
(***************************************************************************)
(* Job lifecycle and single-slot processing coordinator of the Video       *)
(* Speed-Up API: ProcessingLock, VideoProcessor (registry + process_video),*)
(* the three-stage FFmpeg worker, and the upload / status / delete         *)
(* endpoints.                                                              *)
(*                                                                         *)
(* Grain of atomicity.  Every endpoint and process_video run as coroutines *)
(* on one asyncio event loop, so the code between two real suspension      *)
(* points is one action.  The real suspension points are: reading/writing  *)
(* the upload in save_upload_file, the gap between an upload's response    *)
(* and its background task, and `await asyncio.wait_for(...)` in           *)
(* _process_with_ffmpeg.  `await processing_lock.acquire()` and            *)
(* `await full_video_validation()` never suspend (asyncio.Lock.acquire on  *)
(* an unlocked lock returns at once; validation only calls the blocking    *)
(* subprocess.run).  run_ffmpeg_commands runs in an executor thread and    *)
(* interleaves with the loop stage by stage.  Each update_job_status call  *)
(* is also appended to the history variable `hist`, so that every single   *)
(* assignment of status/progress is visible although several happen in one *)
(* action.                                                                 *)
(***************************************************************************)
EXTENDS Integers, Sequences, FiniteSets, TLC

\* ---------------------------------------------------------------- bounds
MaxJobs == 2            \* upload requests / job ids considered
MaxLockCalls == 8       \* calls made by the ProcessingLock harness (LockSpec)
MaxRegCalls == 4        \* calls made by the registry harness (RegistrySpec)
MaxValCalls == 2        \* calls made by the validator harness (ValidationSpec)

JobIds == 1..MaxJobs    \* values of str(uuid.uuid4())[:8] in create_job
Uploads == 1..MaxJobs   \* upload requests; u also names the unique upload file

\* ---------------------------------------------------------------- None values
NoJobId == 0            \* Optional[str] None for a job id
NoTime == 0             \* Optional[datetime] None
NoError == "None"       \* job["error"] is None
NoFile == <<"None", 0>> \* job["output_filename"] is None
NoJob == [status |-> "absent"]   \* self.jobs.get(job_id) is None

Terminal == {"completed", "failed", "rejected"}

VARIABLES
    lock,        \* ProcessingLock: _lock.locked(), _current_job_id, _processing_start_time, _is_processing
    jobs,        \* VideoProcessor.jobs
    hist,        \* per job id: <<status, progress>> after create_job and after every effective update_job_status
    task,        \* per job id: position of its background process_video task
    task_exc,    \* per job id: how process_video ended (return or the HTTPException raised)
    worker,      \* per job id: the executor thread running run_ffmpeg_commands
    upload,      \* per upload request: position of upload_video and the submitted filename's suffix
    disk,        \* files present in UPLOAD_DIR / OUTPUT_DIR
    issued,      \* number of job ids create_job has generated
    clock,       \* datetime.now()
    blocked,     \* job whose task blocks the event loop in ThreadPoolExecutor.__exit__, or NoJobId
    acquires,    \* per job id: successful acquire calls made by its task
    releases,    \* per job id: effective releases (holder cleared) made by its task
    probe        \* LockSpec: the last call made on the lock and what it returned

vars == <<lock, jobs, hist, task, task_exc, worker, upload, disk, issued,
          clock, blocked, acquires, releases, probe>>

\* ---------------------------------------------------------------- ProcessingLock
NewLock ==
    [locked |-> FALSE, current_job_id |-> NoJobId,
     processing_start_time |-> NoTime, is_processing |-> FALSE]

is_locked(l) == l.locked

get_current_job(l) == l.current_job_id

\* Mutant: acquire without the locked() test, taking the lock from its holder.
acquire_always(l, job_id, now) ==
    [lock |-> [locked |-> TRUE, current_job_id |-> job_id,
               processing_start_time |-> now, is_processing |-> TRUE],
     ret |-> TRUE]

\* Mutant: a refused acquire that still records the caller and the time.
acquire_steals(l, job_id, now) ==
    IF l.locked
    THEN [lock |-> [l EXCEPT !.current_job_id = job_id, !.processing_start_time = now],
          ret |-> FALSE]
    ELSE [lock |-> [locked |-> TRUE, current_job_id |-> job_id,
                    processing_start_time |-> now, is_processing |-> TRUE],
          ret |-> TRUE]

\* Mutant: a successful acquire that does not record the holder.
acquire_forgets_holder(l, job_id, now) ==
    IF l.locked
    THEN [lock |-> l, ret |-> FALSE]
    ELSE [lock |-> [locked |-> TRUE, current_job_id |-> NoJobId,
                    processing_start_time |-> now, is_processing |-> TRUE],
          ret |-> TRUE]

\* acquire: `if self._lock.locked(): return False`, else take the lock and
\* record the holder; returns the new lock state and the boolean result.
acquire(l, job_id, now) ==
    IF l.locked
    THEN [lock |-> l, ret |-> FALSE]
    ELSE [lock |-> [locked |-> TRUE, current_job_id |-> job_id,
                    processing_start_time |-> now, is_processing |-> TRUE],
          ret |-> TRUE]

\* get_processing_duration: seconds since the start time, None (NoDuration)
\* when no start time is recorded.
NoDuration == -1

get_processing_duration(l, now) ==
    IF l.processing_start_time # NoTime THEN now - l.processing_start_time ELSE NoDuration

get_status(l, now) ==
    [is_processing |-> l.is_processing,
     current_job_id |-> l.current_job_id,
     processing_duration |-> get_processing_duration(l, now)]

\* Mutant: a release that frees the lock but leaves the start time behind.
release_keeps_start_time(l) ==
    IF l.locked
    THEN [lock |-> [locked |-> FALSE, current_job_id |-> NoJobId,
                    processing_start_time |-> l.processing_start_time,
                    is_processing |-> FALSE],
          raised |-> FALSE]
    ELSE [lock |-> l, raised |-> FALSE]

\* Mutant: release without the locked() guard; asyncio.Lock.release() then
\* raises RuntimeError on an unlocked lock.
release_unguarded(l) ==
    [lock |-> [locked |-> FALSE, current_job_id |-> NoJobId,
               processing_start_time |-> NoTime, is_processing |-> FALSE],
     raised |-> ~l.locked]

\* release: clears the holder only `if self._lock.locked()`; `raised` is
\* the RuntimeError asyncio.Lock.release() throws on an unlocked lock,
\* which the guard makes unreachable.
release(l) ==
    IF l.locked
    THEN [lock |-> [locked |-> FALSE, current_job_id |-> NoJobId,
                    processing_start_time |-> NoTime, is_processing |-> FALSE],
          raised |-> FALSE]
    ELSE [lock |-> l, raised |-> FALSE]

\* ---------------------------------------------------------------- VideoProcessor registry
\* A registry state is the pair of self.jobs and the update history.
Reg(js, hs) == [jobs |-> js, hist |-> hs]

\* Mutant: a create_job that stamps started_at when the record is made.
create_job_stamps_started_at(R, job_id, upload_filename) ==
    Reg([R.jobs EXCEPT ![job_id] =
            [status |-> "created", progress |-> 0, error |-> NoError,
             upload_filename |-> upload_filename, output_filename |-> NoFile,
             started_at |-> 1, completed_at |-> NoTime,
             file_info |-> FALSE, output_size |-> -1]],
        [R.hist EXCEPT ![job_id] = << <<"created", 0>> >>])

\* Mutant: a create_job that stores the upload-time video info in the record.
create_job_with_file_info(R, job_id, upload_filename) ==
    Reg([R.jobs EXCEPT ![job_id] =
            [status |-> "created", progress |-> 0, error |-> NoError,
             upload_filename |-> upload_filename, output_filename |-> NoFile,
             started_at |-> NoTime, completed_at |-> NoTime,
             file_info |-> TRUE, output_size |-> -1]],
        [R.hist EXCEPT ![job_id] = << <<"created", 0>> >>])

create_job(R, job_id, upload_filename) ==
    Reg([R.jobs EXCEPT ![job_id] =
            [status |-> "created", progress |-> 0, error |-> NoError,
             upload_filename |-> upload_filename, output_filename |-> NoFile,
             started_at |-> NoTime, completed_at |-> NoTime,
             file_info |-> FALSE, output_size |-> -1]],
        [R.hist EXCEPT ![job_id] = << <<"created", 0>> >>])

get_job_status(js, job_id) == js[job_id]

\* Mutant: update_job_status that merges kwargs but forgets the status.
update_job_status_keeps_status(R, job_id, status, kwargs) ==
    IF R.jobs[job_id] = NoJob
    THEN R
    ELSE LET old == R.jobs[job_id]
             new == [f \in DOMAIN old |->
                        IF f \in DOMAIN kwargs THEN kwargs[f] ELSE old[f]]
         IN  Reg([R.jobs EXCEPT ![job_id] = new],
                 [R.hist EXCEPT ![job_id] = Append(@, <<new.status, new.progress>>)])

\* Mutant: update_job_status without the membership test; it stores a record
\* for an id the registry does not know.
update_job_status_upserts(R, job_id, status, kwargs) ==
    LET old == IF R.jobs[job_id] = NoJob
               THEN [status |-> "created", progress |-> 0, error |-> NoError,
                     upload_filename |-> 0, output_filename |-> NoFile,
                     started_at |-> NoTime, completed_at |-> NoTime,
                     file_info |-> FALSE, output_size |-> -1]
               ELSE R.jobs[job_id]
        new == [f \in DOMAIN old |->
                   IF f \in DOMAIN kwargs THEN kwargs[f]
                   ELSE IF f = "status" THEN status
                   ELSE old[f]]
    IN  Reg([R.jobs EXCEPT ![job_id] = new],
            [R.hist EXCEPT ![job_id] = Append(@, <<new.status, new.progress>>)])

\* update_job_status: `if job_id in self.jobs:` set status, then merge kwargs.
update_job_status(R, job_id, status, kwargs) ==
    IF R.jobs[job_id] = NoJob
    THEN R
    ELSE LET old == R.jobs[job_id]
             new == [f \in DOMAIN old |->
                        IF f \in DOMAIN kwargs THEN kwargs[f]
                        ELSE IF f = "status" THEN status
                        ELSE old[f]]
         IN  Reg([R.jobs EXCEPT ![job_id] = new],
                 [R.hist EXCEPT ![job_id] = Append(@, <<new.status, new.progress>>)])

\* ---------------------------------------------------------------- FileStorage / paths
\* A stored file is <<kind, u>>: the file of that kind whose name starts with
\* the unique id generate_unique_filename drew for upload request u.
\* "upload" lives in UPLOAD_DIR; "output", "temp" and "black" in OUTPUT_DIR.
UploadPath(u) == <<"upload", u>>

\* generate_output_filename keeps the upload's name and suffix:
\* "<uuid8>_<stem>_speedup<suffix>"
OutputPath(upload_filename) == <<"output", upload_filename>>

\* The uuid8 at the head of upload u's stored name: a draw of its own, never
\* equal to a job id.
UniqueId(u) == MaxJobs + u

\* A file_exists that answers True for every path.
file_exists_always(d, path) == TRUE

file_exists(d, path) == path \in d

get_file_size(d, path) == IF file_exists(d, path) THEN 1 ELSE 0

\* str(output_path).replace('.mp4', '_temp.mp4'): a different path only when
\* the output name contains the lower-case text ".mp4".
TempProcessed(upload_filename, suffix) ==
    IF suffix = "mp4" THEN <<"temp", upload_filename>> ELSE OutputPath(upload_filename)

BlackScreenFile(upload_filename, suffix) ==
    IF suffix = "mp4" THEN <<"black", upload_filename>> ELSE OutputPath(upload_filename)

\* ---------------------------------------------------------------- VideoValidator
Suffixes == {"mp4", "mov", "txt"}      \* ".mp4", another allowed suffix, a suffix not allowed
ProbeResults == {"ok", "nonzero", "timeout", "badjson", "novideo"}

validate_file_extension(suffix) == suffix \in {"mp4", "mov"}

\* get_video_info: every failure, including the HTTPExceptions raised inside
\* the try block, leaves as an HTTPException(400).
get_video_info(probe_result) ==
    IF probe_result = "ok" THEN "ok" ELSE "HTTPException"

\* full_video_validation: extension, existence, size, probe, duration, in
\* this order.  access_ok = FALSE is an OSError from exists()/stat(), the
\* only error that is not an HTTPException.
full_video_validation(suffix, exists, access_ok, size_ok, probe_result, duration_ok) ==
    IF ~validate_file_extension(suffix) THEN "HTTPException"
    ELSE IF ~access_ok THEN "OSError"
    ELSE IF ~exists THEN "HTTPException"
    ELSE IF ~size_ok THEN "HTTPException"
    ELSE IF get_video_info(probe_result) # "ok" THEN "HTTPException"
    ELSE IF ~duration_ok THEN "HTTPException"
    ELSE "ok"

\* config.py: limits the validator reads.
MAX_FILE_SIZE == 104857600
MIN_VIDEO_DURATION == 1
MAX_VIDEO_DURATION == 65

validate_file_size(file_size) == file_size <= MAX_FILE_SIZE

\* Mutant: the duration bounds themselves are refused.
duration_in_range_strict(duration) ==
    MIN_VIDEO_DURATION < duration /\ duration < MAX_VIDEO_DURATION

\* config.MIN_VIDEO_DURATION <= video_info['duration'] <= config.MAX_VIDEO_DURATION
duration_in_range(duration) ==
    MIN_VIDEO_DURATION <= duration /\ duration <= MAX_VIDEO_DURATION

\* full_video_validation statement by statement: the checks it performed, in
\* the order it performed them, and the detail of the exception it raised
\* ("ok" when it returned the video info).
full_video_validation_run(suffix, exists, access_ok, file_size, probe_result, duration) ==
    IF ~validate_file_extension(suffix)
    THEN [result |-> "Unsupported file type", checks |-> <<"extension">>]
    ELSE IF ~access_ok
    THEN [result |-> "OSError", checks |-> <<"extension", "existence">>]
    ELSE IF ~exists
    THEN [result |-> "File not found", checks |-> <<"extension", "existence">>]
    ELSE IF ~validate_file_size(file_size)
    THEN [result |-> "File too large", checks |-> <<"extension", "existence", "size">>]
    ELSE IF get_video_info(probe_result) # "ok"
    THEN [result |-> "get_video_info: " \o probe_result,
          checks |-> <<"extension", "existence", "size", "probe">>]
    ELSE IF ~duration_in_range(duration)
    THEN [result |-> "Video duration must be between",
          checks |-> <<"extension", "existence", "size", "probe", "duration">>]
    ELSE [result |-> "ok",
          checks |-> <<"extension", "existence", "size", "probe", "duration">>]

\* ---------------------------------------------------------------- initial state
NoProbe == [op |-> "none", job |-> NoJobId, ret |-> FALSE, raised |-> FALSE,
            before |-> NewLock, prev |-> "none", calls |-> 0]

\* The module-level objects as their constructors leave them.
InitProgram ==
    /\ lock = NewLock
    /\ jobs = [j \in JobIds |-> NoJob]
    /\ hist = [j \in JobIds |-> << >>]
    /\ task = [j \in JobIds |-> "none"]
    /\ task_exc = [j \in JobIds |-> "none"]
    /\ worker = [j \in JobIds |-> [pc |-> "none", rc |-> 0, stderr |-> "none"]]
    /\ upload = [u \in Uploads |-> [pc |-> "idle", suffix |-> "none", code |-> 0]]
    /\ disk = {}
    /\ issued = 0
    /\ clock = 1
    /\ blocked = NoJobId
    /\ acquires = [j \in JobIds |-> 0]
    /\ releases = [j \in JobIds |-> 0]

Init ==
    /\ InitProgram
    /\ probe = NoProbe

\* The event loop runs handlers and tasks unless a task blocks it.
LoopFree == blocked = NoJobId

\* ---------------------------------------------------------------- POST /upload
\* What the environment answers to one run of full_video_validation on an
\* existing file: the checks stop at the first failure, so at most one
\* failing check is drawn.
AllPass == [access_ok |-> TRUE, size_ok |-> TRUE, probe_result |-> "ok", duration_ok |-> TRUE]

Environments ==
    {AllPass, [AllPass EXCEPT !.access_ok = FALSE], [AllPass EXCEPT !.size_ok = FALSE],
     [AllPass EXCEPT !.duration_ok = FALSE]}
    \cup {[AllPass EXCEPT !.probe_result = r] : r \in ProbeResults}

\* An upload_video that does not look at the lock before it saves the file.
UploadBegin_no_lock_check(u, suffix) ==
    /\ LoopFree
    /\ upload[u].pc = "idle"
    /\ \A v \in Uploads : v < u => upload[v].pc # "idle"
    /\ upload' = [upload EXCEPT ![u] =
          IF suffix = "nofilename"
          THEN [pc |-> "refused", suffix |-> "nofilename", code |-> 400]
          ELSE [pc |-> "saving", suffix |-> suffix, code |-> 0]]
    /\ UNCHANGED <<lock, jobs, hist, task, task_exc, worker, disk, issued,
                   clock, blocked, acquires, releases, probe>>

\* upload_video up to its first suspension (reading the body in
\* save_upload_file).  Requests are numbered in their order of arrival.
UploadBegin(u, suffix) ==
    /\ LoopFree
    /\ upload[u].pc = "idle"
    /\ \A v \in Uploads : v < u => upload[v].pc # "idle"
    /\ upload' = [upload EXCEPT ![u] =
          IF suffix = "nofilename"
          THEN [pc |-> "refused", suffix |-> "nofilename", code |-> 400]
          ELSE IF is_locked(lock)
          THEN [pc |-> "refused", suffix |-> "none", code |-> 429]
          ELSE [pc |-> "saving", suffix |-> suffix, code |-> 0]]
    /\ UNCHANGED <<lock, jobs, hist, task, task_exc, worker, disk, issued,
                   clock, blocked, acquires, releases, probe>>

\* upload_video from the end of save_upload_file to its response: validate
\* the stored copy, create the job and schedule process_video.
UploadFinish(u, save_ok, env) ==
    /\ LoopFree
    /\ upload[u].pc = "saving"
    /\ IF ~save_ok
       THEN \* save_upload_file raised HTTPException(500)
            /\ upload' = [upload EXCEPT ![u] = [pc |-> "refused", suffix |-> "none", code |-> 500]]
            /\ UNCHANGED <<jobs, hist, task, disk, issued>>
       ELSE LET stored == disk \cup {UploadPath(u)}
                v == full_video_validation(upload[u].suffix, TRUE, env.access_ok,
                         env.size_ok, env.probe_result, env.duration_ok)
                job_id == issued + 1
                R == create_job(Reg(jobs, hist), job_id, u)
            IN  IF v = "HTTPException"
                THEN \* os.remove(file_path); raise validation_error
                     /\ upload' = [upload EXCEPT ![u] =
                                      [pc |-> "refused", suffix |-> "none", code |-> 400]]
                     /\ disk' = stored \ {UploadPath(u)}
                     /\ UNCHANGED <<jobs, hist, task, issued>>
                ELSE IF v = "OSError"
                THEN \* not an HTTPException: falls to `except Exception` -> 500
                     /\ upload' = [upload EXCEPT ![u] =
                                      [pc |-> "refused", suffix |-> "none", code |-> 500]]
                     /\ disk' = stored
                     /\ UNCHANGED <<jobs, hist, task, issued>>
                ELSE /\ upload' = [upload EXCEPT ![u].pc = "accepted", ![u].code = 200]
                     /\ disk' = stored
                     /\ jobs' = R.jobs
                     /\ hist' = R.hist
                     /\ issued' = job_id
                     /\ task' = [task EXCEPT ![job_id] = "scheduled"]
    /\ UNCHANGED <<lock, task_exc, worker, clock, blocked, acquires, releases, probe>>

\* ---------------------------------------------------------------- process_video
\* Mutant: no `finally`; the lock is released by the failure handler only.
process_video_exit_no_finally(R, l, job_id, how, detail) ==
    IF how = "Exception"
    THEN [reg |-> update_job_status(R, job_id, "failed", [error |-> detail, progress |-> 0]),
          lock |-> release(l).lock,
          released |-> IF is_locked(l) THEN 1 ELSE 0,
          exc |-> "HTTP_500"]
    ELSE [reg |-> R, lock |-> l, released |-> 0,
          exc |-> IF how = "HTTPException" THEN "HTTP_400" ELSE "returned"]

\* Mutant: the failure handler runs on every exit, also after a return.
process_video_exit_always_fails(R, l, job_id, how, detail) ==
    [reg |-> update_job_status(R, job_id, "failed", [error |-> detail, progress |-> 0]),
     lock |-> release(l).lock,
     released |-> IF is_locked(l) THEN 1 ELSE 0,
     exc |-> IF how = "Exception" THEN "HTTP_500"
             ELSE IF how = "HTTPException" THEN "HTTP_400" ELSE "returned"]

\* Mutant: the failure handler records the error but leaves progress alone.
process_video_exit_keeps_progress(R, l, job_id, how, detail) ==
    LET fin == release(l)
        n1 == IF is_locked(l) THEN 1 ELSE 0
    IN  IF how = "Exception"
        THEN [reg |-> update_job_status(R, job_id, "failed", [error |-> detail]),
              lock |-> fin.lock,
              released |-> n1,
              exc |-> "HTTP_500"]
        ELSE [reg |-> R, lock |-> fin.lock, released |-> n1,
              exc |-> IF how = "HTTPException" THEN "HTTP_400" ELSE "returned"]

\* Leaving the inner try block (lines 109-119): the `finally` releases the
\* lock; an HTTPException is re-raised untouched; any other exception marks
\* the job failed and releases again if the lock is (still) locked.
process_video_exit(R, l, job_id, how, detail) ==
    LET fin == release(l)
        n1 == IF is_locked(l) THEN 1 ELSE 0
    IN  IF how = "Exception"
        THEN LET R2 == update_job_status(R, job_id, "failed",
                                         [error |-> detail, progress |-> 0])
                 again == is_locked(fin.lock)
             IN  [reg |-> R2,
                  lock |-> IF again THEN release(fin.lock).lock ELSE fin.lock,
                  released |-> n1 + (IF again THEN 1 ELSE 0),
                  exc |-> "HTTP_500"]
        ELSE [reg |-> R, lock |-> fin.lock, released |-> n1,
              exc |-> IF how = "HTTPException" THEN "HTTP_400" ELSE "returned"]

\* Mutant: the task records the failure under the id it did not find.
not_found_exit_stores_failure(R, job_id) ==
    update_job_status_upserts(R, job_id, "failed", [error |-> "Job not found"])

\* Leaving through `if job_id not in self.jobs: raise HTTPException(404)`
\* (lines 64-65, re-raised at 113-114): the registry is not touched.
not_found_exit(R, job_id) == R

\* Mutant: the acquisition sits inside the try block, so the `finally`
\* release also runs for a task whose acquire was refused.
rejected_exit_releases(l) == release(l).lock

\* Leaving through the refused acquire (lines 70-72): the raise is outside the
\* inner try block, so no release is called and the lock stays as it is.
rejected_exit(l) == l

\* process_video from its start to `await asyncio.wait_for(...)` (or to its
\* end when it does not get that far): lines 62-92 and 121-270.
ProcessVideoStart(job_id, env, info_ok) ==
    /\ LoopFree
    /\ task[job_id] = "scheduled"
    /\ clock' = clock + 1
    /\ IF jobs[job_id] = NoJob
       THEN \* raise HTTPException(404); re-raised by `except HTTPException`
            /\ task' = [task EXCEPT ![job_id] = "ended"]
            /\ task_exc' = [task_exc EXCEPT ![job_id] = "HTTP_404"]
            /\ jobs' = not_found_exit(Reg(jobs, hist), job_id).jobs
            /\ hist' = not_found_exit(Reg(jobs, hist), job_id).hist
            /\ UNCHANGED <<lock, worker, acquires, releases>>
       ELSE LET a == acquire(lock, job_id, clock)
            IN  IF ~a.ret
                THEN \* rejected; HTTPException(429) is raised outside the inner try
                     LET R == update_job_status(Reg(jobs, hist), job_id, "rejected",
                                 [error |-> "Another video is currently being processed"])
                     IN  /\ lock' = rejected_exit(a.lock)
                         /\ jobs' = R.jobs
                         /\ hist' = R.hist
                         /\ task' = [task EXCEPT ![job_id] = "ended"]
                         /\ task_exc' = [task_exc EXCEPT ![job_id] = "HTTP_429"]
                         /\ UNCHANGED <<worker, acquires, releases>>
                ELSE LET u == jobs[job_id].upload_filename
                         R1 == update_job_status(Reg(jobs, hist), job_id, "validating",
                                                 [started_at |-> clock])
                         v == full_video_validation(upload[u].suffix,
                                  file_exists(disk, UploadPath(u)),
                                  env.access_ok, env.size_ok, env.probe_result,
                                  env.duration_ok)
                         R2 == update_job_status(R1, job_id, "validated",
                                                 [file_info |-> TRUE, progress |-> 20])
                         R3 == update_job_status(R2, job_id, "processing",
                                  [output_filename |-> OutputPath(u), progress |-> 30])
                         R4 == update_job_status(R3, job_id, "processing", [progress |-> 40])
                         x == IF v = "HTTPException"
                              THEN process_video_exit(R1, a.lock, job_id, "HTTPException", "none")
                              ELSE IF v = "OSError"
                              THEN process_video_exit(R1, a.lock, job_id, "Exception", "OSError")
                              ELSE \* ffprobe at the head of _process_with_ffmpeg failed
                                   process_video_exit(R3, a.lock, job_id, "Exception",
                                       "FFmpeg processing error: Failed to get video information")
                     IN  /\ acquires' = [acquires EXCEPT ![job_id] = @ + 1]
                         /\ IF v = "ok" /\ info_ok
                            THEN \* suspended in wait_for with the worker submitted
                                 /\ lock' = a.lock
                                 /\ jobs' = R4.jobs
                                 /\ hist' = R4.hist
                                 /\ task' = [task EXCEPT ![job_id] = "awaiting"]
                                 /\ worker' = [worker EXCEPT ![job_id].pc = "stage1"]
                                 /\ UNCHANGED <<task_exc, releases>>
                            ELSE /\ lock' = x.lock
                                 /\ jobs' = x.reg.jobs
                                 /\ hist' = x.reg.hist
                                 /\ task' = [task EXCEPT ![job_id] = "ended"]
                                 /\ task_exc' = [task_exc EXCEPT ![job_id] = x.exc]
                                 /\ releases' = [releases EXCEPT ![job_id] = @ + x.released]
                                 /\ UNCHANGED worker
    /\ UNCHANGED <<upload, disk, issued, blocked, probe>>

\* What a stage writes to its stderr, and the message run_ffmpeg_commands
\* returns for a stage that exited non-zero: f"Step k failed: {stderr}".
StageStderr(k) == "<stderr of " \o k \o ">"

StepFailed(k) ==
    (IF k = "stage1" THEN "Step 1" ELSE IF k = "stage2" THEN "Step 2" ELSE "Step 3")
        \o " failed: " \o StageStderr(k)

\* Mutant: the caller reports a fixed text instead of the returned stderr.
FFmpegFailed_unknown(stderr) == "FFmpeg processing error: FFmpeg failed: Unknown FFmpeg error"

\* The exception of line 274 as line 283 re-raises it.
FFmpegFailed(stderr) == "FFmpeg processing error: FFmpeg failed: " \o stderr

\* run_ffmpeg_commands, one subprocess.run per step of the executor thread.
\* rc is the stage's exit code, raised an exception from subprocess.run.
\* A stage leaves its output file when it exits with code zero.
RunStage(job_id, rc, raised) ==
    /\ worker[job_id].pc \in {"stage1", "stage2", "stage3"}
    /\ LET k == worker[job_id].pc
           u == jobs[job_id].upload_filename
           suffix == upload[u].suffix
           temp_processed == TempProcessed(u, suffix)
           black_screen_file == BlackScreenFile(u, suffix)
           target == IF k = "stage1" THEN temp_processed
                     ELSE IF k = "stage2" THEN black_screen_file
                     ELSE OutputPath(u)
           written == IF rc = 0 /\ ~raised THEN disk \cup {target} ELSE disk
       IN  IF raised
           THEN \* except Exception: remove both temp files, return (None, str(e), 1)
                /\ disk' = written \ {temp_processed, black_screen_file}
                /\ worker' = [worker EXCEPT ![job_id] =
                                 [pc |-> "returned", rc |-> 1, stderr |-> "exception"]]
           ELSE IF rc # 0
           THEN \* return None, f"Step k failed: ...", returncode
                /\ disk' = written
                /\ worker' = [worker EXCEPT ![job_id] =
                                 [pc |-> "returned", rc |-> rc, stderr |-> StepFailed(k)]]
           ELSE IF k = "stage3"
           THEN \* all three succeeded: remove the temp files, return rc 0
                /\ disk' = written \ {temp_processed, black_screen_file}
                /\ worker' = [worker EXCEPT ![job_id] =
                                 [pc |-> "returned", rc |-> 0, stderr |-> "none"]]
           ELSE /\ disk' = written
                /\ worker' = [worker EXCEPT ![job_id].pc =
                                 IF k = "stage1" THEN "stage2" ELSE "stage3"]
    /\ UNCHANGED <<lock, jobs, hist, task, task_exc, upload, issued, clock,
                   blocked, acquires, releases, probe>>

\* Mutant: the caller does not look at the worker's return code.
pipeline_failed_ignored(w) == FALSE

\* `if returncode != 0:` on the worker's result (line 272).
pipeline_failed(w) == w.rc # 0

\* process_video resumed by the worker's result before the deadline:
\* lines 267-277 and 94-119.
ProcessVideoResume(job_id) ==
    /\ LoopFree
    /\ task[job_id] = "awaiting"
    /\ worker[job_id].pc = "returned"
    /\ LET R0 == Reg(jobs, hist)
           R1 == update_job_status(R0, job_id, "processing", [progress |-> 90])
           output_path == OutputPath(jobs[job_id].upload_filename)
           R2 == update_job_status(R1, job_id, "completed",
                    [progress |-> 100, completed_at |-> clock,
                     output_size |-> get_file_size(disk, output_path)])
           x == IF pipeline_failed(worker[job_id])
                THEN process_video_exit(R0, lock, job_id, "Exception",
                         FFmpegFailed(worker[job_id].stderr))
                ELSE IF ~file_exists(disk, output_path)
                THEN process_video_exit(R1, lock, job_id, "Exception",
                         "Output file was not created")
                ELSE process_video_exit(R2, lock, job_id, "return", "none")
       IN  /\ lock' = x.lock
           /\ jobs' = x.reg.jobs
           /\ hist' = x.reg.hist
           /\ task_exc' = [task_exc EXCEPT ![job_id] = x.exc]
           /\ releases' = [releases EXCEPT ![job_id] = @ + x.released]
    /\ task' = [task EXCEPT ![job_id] = "ended"]
    /\ worker' = [worker EXCEPT ![job_id] = [pc |-> "joined", rc |-> 0, stderr |-> "none"]]
    /\ UNCHANGED <<upload, disk, issued, clock, blocked, acquires, probe>>

\* The FFMPEG_TIMEOUT deadline fires while the worker is still running:
\* wait_for raises TimeoutError, and leaving `with ThreadPoolExecutor()`
\* calls shutdown(wait=True), which blocks the event loop thread until the
\* worker function has returned.
ProcessVideoTimeout(job_id) ==
    /\ LoopFree
    /\ task[job_id] = "awaiting"
    /\ worker[job_id].pc \in {"stage1", "stage2", "stage3"}
    /\ task' = [task EXCEPT ![job_id] = "shutdown"]
    /\ blocked' = job_id
    /\ UNCHANGED <<lock, jobs, hist, task_exc, worker, upload, disk, issued,
                   clock, acquires, releases, probe>>

\* Mutant: executor.shutdown(wait=False), which returns at once.
shutdown_no_wait(w) == TRUE

\* ThreadPoolExecutor.__exit__ is shutdown(wait=True): it returns when the
\* worker function has returned.
shutdown_returns(w) == w.pc = "returned"

\* The worker has returned, shutdown(wait=True) lets go: the timeout
\* travels on as Exception("FFmpeg processing error: Video processing timed out").
ProcessVideoTimedOut(job_id) ==
    /\ blocked = job_id
    /\ task[job_id] = "shutdown"
    /\ shutdown_returns(worker[job_id])
    /\ LET x == process_video_exit(Reg(jobs, hist), lock, job_id, "Exception",
                    "FFmpeg processing error: Video processing timed out")
       IN  /\ lock' = x.lock
           /\ jobs' = x.reg.jobs
           /\ hist' = x.reg.hist
           /\ task_exc' = [task_exc EXCEPT ![job_id] = x.exc]
           /\ releases' = [releases EXCEPT ![job_id] = @ + x.released]
    /\ task' = [task EXCEPT ![job_id] = "ended"]
    /\ worker' = [worker EXCEPT ![job_id] =
                     IF @.pc = "returned"
                     THEN [pc |-> "joined", rc |-> 0, stderr |-> "none"]
                     ELSE @]
    /\ blocked' = NoJobId
    /\ UNCHANGED <<upload, disk, issued, clock, acquires, probe>>

\* ---------------------------------------------------------------- GET /status, DELETE /job
\* The response of the get_job_status endpoint in the current state.
status_response(js, l, job_id) ==
    IF get_job_status(js, job_id) = NoJob
    THEN [code |-> 404, status |-> "absent", is_currently_processing |-> FALSE]
    ELSE [code |-> 200, status |-> js[job_id].status,
          is_currently_processing |-> (get_current_job(l) = job_id)]

\* GET /status/{job_id} reads the registry and the lock and changes nothing.
GetJobStatus(job_id) ==
    /\ LoopFree
    /\ status_response(jobs, lock, job_id).code \in {200, 404}
    /\ UNCHANGED vars

\* Mutant: a download that does not look whether the output file is there.
download_response_skips_exists(js, d, job_id) ==
    LET job_status == get_job_status(js, job_id)
    IN  IF job_status = NoJob THEN 404
        ELSE IF job_status.status # "completed" THEN 400
        ELSE IF job_status.output_filename = NoFile THEN 500
        ELSE 200

\* GET /download/{job_id}: the answer's status code (200 is the FileResponse).
download_response(js, d, job_id) ==
    LET job_status == get_job_status(js, job_id)
    IN  IF job_status = NoJob THEN 404
        ELSE IF job_status.status # "completed" THEN 400
        ELSE IF job_status.output_filename = NoFile THEN 500
        ELSE IF ~file_exists(d, job_status.output_filename) THEN 404
        ELSE 200

\* cleanup_temp_files globs UPLOAD_DIR for "<job_id>*" and OUTPUT_DIR for
\* "*<job_id>*" and deletes what it finds.  Stored names are
\* "<uuid8>_<original name>" and "<uuid8>_<stem>_speedup<suffix>", so a name
\* matches when its uuid8 is the job id (original names are taken not to
\* spell out a job id).
cleanup_temp_files(d, job_id) ==
    LET in_uploads == {p \in d : p[1] = "upload" /\ UniqueId(p[2]) = job_id}
        in_outputs == {p \in d : p[1] \in {"output", "temp", "black"}
                                    /\ UniqueId(p[2]) = job_id}
    IN  [upload_deleted |-> in_uploads # {},
         output_deleted |-> in_outputs # {},
         disk |-> d \ (in_uploads \cup in_outputs)]

\* A cleanup_job that empties the whole registry.
cleanup_job_clears_registry(js, d, job_id) ==
    LET cleanup_results == cleanup_temp_files(d, job_id)
    IN  [jobs |-> [k \in JobIds |-> NoJob],
         disk |-> cleanup_results.disk,
         upload_deleted |-> cleanup_results.upload_deleted,
         output_deleted |-> cleanup_results.output_deleted,
         job_removed |-> js[job_id] # NoJob]

\* cleanup_job: delete the files found, then the record.
cleanup_job(js, d, job_id) ==
    LET cleanup_results == cleanup_temp_files(d, job_id)
    IN  [jobs |-> [js EXCEPT ![job_id] = NoJob],
         disk |-> cleanup_results.disk,
         upload_deleted |-> cleanup_results.upload_deleted,
         output_deleted |-> cleanup_results.output_deleted,
         job_removed |-> js[job_id] # NoJob]

\* Mutant: delete_job without the check for the currently processing job.
delete_response_no_busy_check(js, l, job_id) ==
    IF get_job_status(js, job_id) = NoJob THEN 404 ELSE 200

\* The status code the delete_job endpoint answers with in the current state.
delete_response(js, l, job_id) ==
    IF get_job_status(js, job_id) = NoJob THEN 404
    ELSE IF get_current_job(l) = job_id THEN 400
    ELSE 200

\* DELETE /job/{job_id}.  The history of a removed record is dropped with it.
DeleteJob(job_id) ==
    /\ LoopFree
    /\ IF delete_response(jobs, lock, job_id) = 200
       THEN LET c == cleanup_job(jobs, disk, job_id)
            IN  /\ jobs' = c.jobs
                /\ disk' = c.disk
                /\ hist' = [hist EXCEPT ![job_id] = << >>]
       ELSE UNCHANGED <<jobs, disk, hist>>
    /\ UNCHANGED <<lock, task, task_exc, worker, upload, issued,
                   clock, blocked, acquires, releases, probe>>

\* ---------------------------------------------------------------- age-based cleanup
\* The attributes of Config that hold a retention time.
ConfigAttributes == {"CLEANUP_INTERVAL", "FILE_RETENTION_TIME"}

\* CleanupManager.get_old_files with its default age: it reads
\* config.CLEANUP_AFTER_SECONDS before its try block.  File ages are not
\* kept, so with the attribute present every file might be old.
get_old_files(d, kinds) ==
    IF "CLEANUP_AFTER_SECONDS" \in ConfigAttributes
    THEN [raised |-> FALSE, old_files |-> {p \in d : p[1] \in kinds}]
    ELSE [raised |-> TRUE, old_files |-> {}]

\* CleanupManager.cleanup_old_files: uploads first, then outputs; an error of
\* get_old_files leaves it before anything is deleted.
cleanup_old_files(d) ==
    LET old_upload_files == get_old_files(d, {"upload"})
        old_output_files == get_old_files(d, {"output", "temp", "black"})
    IN  IF old_upload_files.raised
        THEN [raised |-> TRUE, disk |-> d]
        ELSE IF old_output_files.raised
        THEN [raised |-> TRUE, disk |-> d \ old_upload_files.old_files]
        ELSE [raised |-> FALSE,
              disk |-> d \ (old_upload_files.old_files \cup old_output_files.old_files)]

\* POST /cleanup/old-files: 200 with the results, 500 when the cleanup raised.
cleanup_response(d) == IF cleanup_old_files(d).raised THEN 500 ELSE 200

CleanupOldFiles ==
    /\ LoopFree
    /\ cleanup_response(disk) \in {200, 500}
    /\ disk' = cleanup_old_files(disk).disk
    /\ UNCHANGED <<lock, jobs, hist, task, task_exc, worker, upload, issued,
                   clock, blocked, acquires, releases, probe>>

\* ---------------------------------------------------------------- specification
Next ==
    \/ \E u \in Uploads, suffix \in Suffixes \cup {"nofilename"} : UploadBegin(u, suffix)
    \/ \E u \in Uploads, save_ok \in BOOLEAN, env \in Environments :
          UploadFinish(u, save_ok, env)
    \/ \E job_id \in JobIds, env \in Environments, info_ok \in BOOLEAN :
          ProcessVideoStart(job_id, env, info_ok)
    \/ \E job_id \in JobIds, rc \in {0, 1}, raised \in BOOLEAN : RunStage(job_id, rc, raised)
    \/ \E job_id \in JobIds : ProcessVideoResume(job_id)
    \/ \E job_id \in JobIds : ProcessVideoTimeout(job_id)
    \/ \E job_id \in JobIds : ProcessVideoTimedOut(job_id)
    \/ \E job_id \in JobIds : GetJobStatus(job_id)
    \/ \E job_id \in JobIds : DeleteJob(job_id)
    \/ CleanupOldFiles

Spec == Init /\ [][Next]_vars

\* ---------------------------------------------------------------- ProcessingLock on its own
\* LockSpec drives one ProcessingLock with arbitrary sequences of
\* acquire(job_id) and release() calls, as any caller of the class may.
LockAcquire(job_id) ==
    /\ probe.calls < MaxLockCalls
    /\ LET a == acquire(lock, job_id, clock)
       IN  /\ lock' = a.lock
           /\ probe' = [op |-> "acquire", job |-> job_id, ret |-> a.ret,
                        raised |-> FALSE, before |-> lock, prev |-> probe.op,
                        calls |-> probe.calls + 1]
    /\ clock' = clock + 1
    /\ UNCHANGED <<jobs, hist, task, task_exc, worker, upload, disk, issued,
                   blocked, acquires, releases>>

LockRelease ==
    /\ probe.calls < MaxLockCalls
    /\ LET r == release(lock)
       IN  /\ lock' = r.lock
           /\ probe' = [op |-> "release", job |-> NoJobId, ret |-> FALSE,
                        raised |-> r.raised, before |-> lock, prev |-> probe.op,
                        calls |-> probe.calls + 1]
    /\ clock' = clock + 1
    /\ UNCHANGED <<jobs, hist, task, task_exc, worker, upload, disk, issued,
                   blocked, acquires, releases>>

LockNext ==
    \/ \E job_id \in JobIds : LockAcquire(job_id)
    \/ LockRelease

LockSpec == Init /\ [][LockNext]_vars

\* ---------------------------------------------------------------- VideoProcessor registry on its own
\* RegistrySpec drives one registry with arbitrary sequences of create_job,
\* update_job_status and cleanup_job calls.  create_job's id is the first
\* eight hex digits of a uuid4: a random draw that create_job stores under
\* without looking at self.jobs, so every id of the id space may come out of
\* any call.  (Spec follows the runs in which all draws differ.)
NoRegProbe == [op |-> "none", job |-> NoJobId, ret |-> NoJobId,
               before |-> [j \in JobIds |-> NoJob], returned |-> {}, calls |-> 0]

RegInit ==
    /\ InitProgram
    /\ probe = NoRegProbe

RegCreateJob(uuid8, upload_filename) ==
    /\ probe.calls < MaxRegCalls
    /\ LET R == create_job(Reg(jobs, hist), uuid8, upload_filename)
       IN  /\ jobs' = R.jobs
           /\ hist' = R.hist
    /\ issued' = uuid8
    /\ probe' = [op |-> "create_job", job |-> uuid8, ret |-> uuid8, before |-> jobs,
                 returned |-> probe.returned \cup {uuid8}, calls |-> probe.calls + 1]
    /\ UNCHANGED <<lock, task, task_exc, worker, upload, disk, clock, blocked,
                   acquires, releases>>

RegUpdateJobStatus(job_id, status, kwargs) ==
    /\ probe.calls < MaxRegCalls
    /\ LET R == update_job_status(Reg(jobs, hist), job_id, status, kwargs)
       IN  /\ jobs' = R.jobs
           /\ hist' = R.hist
    /\ probe' = [op |-> "update_job_status", job |-> job_id, ret |-> NoJobId,
                 before |-> jobs, returned |-> probe.returned,
                 calls |-> probe.calls + 1]
    /\ UNCHANGED <<lock, task, task_exc, worker, upload, disk, issued, clock,
                   blocked, acquires, releases>>

RegCleanupJob(job_id) ==
    /\ probe.calls < MaxRegCalls
    /\ LET c == cleanup_job(jobs, disk, job_id)
       IN  /\ jobs' = c.jobs
           /\ disk' = c.disk
           /\ hist' = [hist EXCEPT ![job_id] = << >>]
    /\ probe' = [op |-> "cleanup_job", job |-> job_id, ret |-> NoJobId,
                 before |-> jobs, returned |-> probe.returned,
                 calls |-> probe.calls + 1]
    /\ UNCHANGED <<lock, task, task_exc, worker, upload, issued, clock,
                   blocked, acquires, releases>>

\* The storage collaborator on its own: a file appears under a path (the
\* transcoder's output), FileStorage.delete_file removes one.
RegWriteFile(path) ==
    /\ probe.calls < MaxRegCalls
    /\ disk' = disk \cup {path}
    /\ probe' = [op |-> "write_file", job |-> NoJobId, ret |-> NoJobId,
                 before |-> jobs, returned |-> probe.returned,
                 calls |-> probe.calls + 1]
    /\ UNCHANGED <<lock, jobs, hist, task, task_exc, worker, upload, issued,
                   clock, blocked, acquires, releases>>

RegDeleteFile(path) ==
    /\ probe.calls < MaxRegCalls
    /\ file_exists(disk, path)
    /\ disk' = disk \ {path}
    /\ probe' = [op |-> "delete_file", job |-> NoJobId, ret |-> NoJobId,
                 before |-> jobs, returned |-> probe.returned,
                 calls |-> probe.calls + 1]
    /\ UNCHANGED <<lock, jobs, hist, task, task_exc, worker, upload, issued,
                   clock, blocked, acquires, releases>>

\* process_video's last two updates, in its order: completed is written to
\* a record that already carries its output_filename.
RegUpdateProcessing(job_id) ==
    /\ jobs[job_id] # NoJob
    /\ RegUpdateJobStatus(job_id, "processing",
           [output_filename |-> OutputPath(jobs[job_id].upload_filename),
            progress |-> 30])

RegUpdateCompleted(job_id) ==
    /\ jobs[job_id] # NoJob
    /\ jobs[job_id].output_filename # NoFile
    /\ RegUpdateJobStatus(job_id, "completed",
           [progress |-> 100, completed_at |-> clock,
            output_size |-> get_file_size(disk, jobs[job_id].output_filename)])

RegNext ==
    \/ \E uuid8 \in JobIds, upload_filename \in Uploads : RegCreateJob(uuid8, upload_filename)
    \/ \E job_id \in JobIds : RegUpdateJobStatus(job_id, "validating", [started_at |-> clock])
    \/ \E job_id \in JobIds : RegUpdateJobStatus(job_id, "processing", [progress |-> 40])
    \/ \E job_id \in JobIds :
          RegUpdateJobStatus(job_id, "failed", [error |-> "OSError", progress |-> 0])
    \/ \E job_id \in JobIds : RegCleanupJob(job_id)
    \/ \E job_id \in JobIds : RegUpdateProcessing(job_id)
    \/ \E job_id \in JobIds : RegUpdateCompleted(job_id)
    \/ \E u \in Uploads : RegWriteFile(OutputPath(u))
    \/ \E u \in Uploads : RegDeleteFile(OutputPath(u))

RegistrySpec == RegInit /\ [][RegNext]_vars

\* ---------------------------------------------------------------- VideoValidator on its own
\* ValidationSpec calls full_video_validation on every combination of a
\* suffix, a stored file (present or not, readable or not, with a size around
\* the limit), a probe outcome and a duration around the two bounds.
FileSizes == {MAX_FILE_SIZE - 1, MAX_FILE_SIZE, MAX_FILE_SIZE + 1}
Durations == {MIN_VIDEO_DURATION - 1, MIN_VIDEO_DURATION, MIN_VIDEO_DURATION + 1,
              MAX_VIDEO_DURATION, MAX_VIDEO_DURATION + 1}

ValidationInputs ==
    [suffix : Suffixes, exists : BOOLEAN, access_ok : BOOLEAN, file_size : FileSizes,
     probe_result : ProbeResults, duration : Durations]

NoValProbe == [op |-> "none", calls |-> 0]

ValInit ==
    /\ InitProgram
    /\ probe = NoValProbe

Validate(in) ==
    /\ probe.calls < MaxValCalls
    /\ probe' = [op |-> "full_video_validation", calls |-> probe.calls + 1,
                 in |-> in,
                 out |-> full_video_validation_run(in.suffix, in.exists, in.access_ok,
                            in.file_size, in.probe_result, in.duration)]
    /\ UNCHANGED <<lock, jobs, hist, task, task_exc, worker, upload, disk, issued,
                   clock, blocked, acquires, releases>>

ValNext == \E in \in ValidationInputs : Validate(in)

ValidationSpec == ValInit /\ [][ValNext]_vars

\* ================================================================ properties
\* A task is between its successful acquire and the matching release.
InCritical(j) == acquires[j] > releases[j]

Running(j) == task[j] \in {"awaiting", "shutdown"}

\* C1: at most one process_video task is between a successful acquire and
\* its release, and that task's job is the one (and only one) the status
\* endpoint reports with is_currently_processing = true.
C1_MutualExclusion ==
    /\ Cardinality({j \in JobIds : InCritical(j)}) <= 1
    /\ \A j \in JobIds :
          InCritical(j) <=> status_response(jobs, lock, j).is_currently_processing

C1_Witness ==
    \E j, k \in JobIds :
        /\ InCritical(j)
        /\ status_response(jobs, lock, j).is_currently_processing
        /\ task_exc[k] = "HTTP_429"

\* C2: whenever the lock names a holder, that job is in the registry and its
\* status is not completed, failed or rejected.
C2_HolderIsLiveJob ==
    get_current_job(lock) # NoJobId =>
        /\ get_current_job(lock) \in JobIds
        /\ jobs[get_current_job(lock)] # NoJob
        /\ jobs[get_current_job(lock)].status \notin Terminal

C2_Witness ==
    \E j, k \in JobIds :
        /\ get_current_job(lock) = j
        /\ jobs[j].status = "processing"
        /\ k # j
        /\ task[k] = "ended"
        /\ jobs[k] = NoJob

\* C3: a task that has ended made exactly as many effective releases as
\* successful acquires (at most one of each), and the lock is unheld
\* whenever no process_video task is running.
C3_ReleaseMatchesAcquire ==
    /\ \A j \in JobIds :
          /\ acquires[j] <= 1
          /\ releases[j] <= acquires[j]
          /\ task[j] = "ended" => releases[j] = acquires[j]
    /\ (\A j \in JobIds : ~Running(j)) => lock = NewLock

C3_Witness ==
    \E j \in JobIds :
        /\ task[j] = "ended"
        /\ acquires[j] = 1
        /\ releases[j] = 1
        /\ jobs[j] # NoJob
        /\ jobs[j].error = "FFmpeg processing error: Video processing timed out"

\* C4: a task that starts while another job holds the lock marks its job
\* rejected with an error and leaves the lock (holder and acquisition time)
\* and its own release count untouched; a rejected job never gets a worker
\* and never acquires.
C4_RejectedLeavesHolder ==
    /\ [][\A j \in JobIds :
            (task[j] = "scheduled" /\ task'[j] # "scheduled"
                /\ is_locked(lock) /\ jobs[j] # NoJob)
            => /\ jobs'[j].status = "rejected"
               /\ jobs'[j].error # NoError
               /\ lock' = lock
               /\ releases'[j] = releases[j]
               /\ task'[j] = "ended"
               /\ worker'[j].pc = "none"]_vars
    /\ [](\A j \in JobIds :
            (jobs[j] # NoJob /\ jobs[j].status = "rejected")
            => worker[j].pc = "none" /\ acquires[j] = 0 /\ task[j] = "ended")

C4_Witness ==
    \E j, k \in JobIds :
        /\ jobs[k] # NoJob
        /\ jobs[k].status = "rejected"
        /\ jobs[k].error # NoError
        /\ get_current_job(lock) = j
        /\ jobs[j] # NoJob
        /\ lock.processing_start_time = jobs[j].started_at
        /\ worker[j].pc = "stage3"

\* The status changes C5 lists; "a pre-lock state" is read as widely as
\* the text allows.
C5_Allowed ==
    {<<"created", "validating">>, <<"validating", "validated">>,
     <<"validated", "processing">>, <<"processing", "processing">>,
     <<"processing", "completed">>, <<"processing", "failed">>}
    \cup {<<s, "rejected">> : s \in {"created", "validating", "validated", "processing"}}

StepsOf(h) == {<<h[i][1], h[i + 1][1]>> : i \in 1..(Len(h) - 1)}

\* C5 as stated: every status change is one of the listed transitions.
C5_OnlyListedTransitions ==
    \A j \in JobIds : StepsOf(hist[j]) \subseteq C5_Allowed

\* C5 amended: the listed transitions, or validating -> failed.
C5_TransitionsAmended ==
    \A j \in JobIds :
        /\ StepsOf(hist[j]) \subseteq C5_Allowed \cup {<<"validating", "failed">>}
        /\ hist[j] # << >> => hist[j][1][1] = "created"
        /\ jobs[j] # NoJob =>
              /\ hist[j] # << >>
              /\ hist[j][Len(hist[j])] = <<jobs[j].status, jobs[j].progress>>

C5_Witness ==
    \E j, k \in JobIds :
        /\ jobs[j] # NoJob
        /\ jobs[j].status = "completed"
        /\ Len(hist[j]) = 7
        /\ jobs[k] # NoJob
        /\ jobs[k].status = "failed"
        /\ <<"validating", "failed">> \in StepsOf(hist[k])

\* C6: a completed, failed or rejected record is never written again: it is
\* the last entry of the job's update history, and a step leaves the record
\* as it is or (a delete) removes it.
C6_TerminalIsFinal ==
    /\ [](\A j \in JobIds : \A i \in 1..(Len(hist[j]) - 1) : hist[j][i][1] \notin Terminal)
    /\ [][\A j \in JobIds :
            (jobs[j] # NoJob /\ jobs[j].status \in Terminal)
            => \/ jobs'[j] = jobs[j]
               \/ jobs'[j] = NoJob /\ delete_response(jobs, lock, j) = 200]_vars

C6_Witness ==
    \E j, k \in JobIds :
        /\ jobs[j] # NoJob
        /\ jobs[j].status = "failed"
        /\ task[j] = "ended"
        /\ jobs[k] # NoJob
        /\ jobs[k].status = "completed"
        /\ jobs[k].started_at > jobs[j].started_at

\* C7 as stated: a task that acquired the lock and then ended with an error
\* leaves its job failed, with an error and progress 0.
C7_ErrorAfterAcquireMeansFailed ==
    \A j \in JobIds :
        (task[j] = "ended" /\ acquires[j] = 1 /\ task_exc[j] # "returned" /\ jobs[j] # NoJob)
        => /\ jobs[j].status = "failed"
           /\ jobs[j].error # NoError
           /\ jobs[j].progress = 0

\* C8 as stated, in the form a finite run refutes: once a job's task has
\* ended, the job is completed, failed or rejected.
C8_EndedTaskMeansTerminal ==
    \A j \in JobIds :
        (task[j] = "ended" /\ jobs[j] # NoJob) => jobs[j].status \in Terminal

\* C9: acquire on a held lock returns false and changes nothing; on an
\* unheld lock it returns true and records the caller as holder; of two
\* acquire calls with no release between them the second never gets true.
C9_AcquireIsTryLock ==
    /\ [][(probe'.calls # probe.calls /\ probe'.op = "acquire")
            => IF is_locked(lock)
               THEN probe'.ret = FALSE /\ lock' = lock
               ELSE /\ probe'.ret = TRUE
                    /\ lock'.current_job_id = probe'.job
                    /\ lock'.processing_start_time = clock
                    /\ lock'.is_processing
                    /\ is_locked(lock')]_vars
    /\ []((probe.op = "acquire" /\ probe.prev = "acquire") => probe.ret = FALSE)

C9_Witness ==
    /\ probe.op = "acquire"
    /\ probe.prev = "acquire"
    /\ probe.ret = FALSE
    /\ is_locked(probe.before)
    /\ get_current_job(probe.before) # probe.job
    /\ probe.before.processing_start_time = clock - 2
    /\ lock = probe.before

\* C10: release never raises; on an unheld lock it changes nothing; after
\* any release the lock is in its unheld state, so a second release in a
\* row leaves what the first one left.
C10_ReleaseIdempotent ==
    [][(probe'.calls # probe.calls /\ probe'.op = "release")
        => /\ ~probe'.raised
           /\ ~is_locked(lock) => lock' = lock
           /\ lock' = NewLock]_vars

C10_Witness ==
    /\ probe.op = "release"
    /\ probe.prev = "release"
    /\ ~probe.raised
    /\ probe.before = NewLock
    /\ lock = NewLock
    /\ probe.calls >= 3

\* ---------------------------------------------------------------------------
\* C11: once the three-stage pipeline of a job has ended, in whichever way
\* (all stages succeeded, a stage exited non-zero, a stage raised, or the
\* deadline expired and the worker came back), neither temp file A (the
\* speed-adjusted clip) nor temp file B (the outro clip) is on disk.
PipelineEnded(j) == worker[j].pc \in {"returned", "joined"}

C11_NoTempFilesAfterPipeline ==
    \A j \in JobIds :
        (PipelineEnded(j) /\ jobs[j] # NoJob) =>
            /\ <<"temp", jobs[j].upload_filename>> \notin disk
            /\ <<"black", jobs[j].upload_filename>> \notin disk

\* ---------------------------------------------------------------------------
\* C12: when the FFMPEG_TIMEOUT deadline expires before the three stages
\* have finished, the pipeline is aborted: from the moment wait_for has
\* raised the timeout the worker starts no further stage, and when the task
\* ends the job is failed with the timeout error and no longer holds the
\* slot.
TimeoutError == "FFmpeg processing error: Video processing timed out"

C12_TimeoutAbortsPipeline ==
    [][\A j \in JobIds :
          task[j] = "shutdown" =>
              /\ worker'[j].pc \in {"stage2", "stage3"} => worker'[j].pc = worker[j].pc
              /\ task'[j] # "shutdown" =>
                    /\ jobs'[j].status = "failed"
                    /\ jobs'[j].error = TimeoutError
                    /\ get_current_job(lock') # j]_vars

\* ---------------------------------------------------------------------------
\* C13: a delete request for the job that holds the lock is refused (400),
\* and no step taken while a job holds the lock removes that job's record:
\* the record of the holder is still in the registry after every step.
C13_HolderCannotBeDeleted ==
    [][\A j \in JobIds :
          get_current_job(lock) = j =>
              /\ delete_response(jobs, lock, j) = 400
              /\ jobs'[j] # NoJob
              /\ UploadPath(jobs[j].upload_filename) \in disk
                    => UploadPath(jobs[j].upload_filename) \in disk']_vars

\* The holder's delete is refused in a state where another job has been deleted.
C13_Witness ==
    \E j, k \in JobIds :
        /\ j # k
        /\ get_current_job(lock) = j
        /\ delete_response(jobs, lock, j) = 400
        /\ task[k] = "ended"
        /\ jobs[k] = NoJob

\* ---------------------------------------------------------------------------
\* C14: a delete request for an existing job that does not hold the lock is
\* accepted (200) and cleanup_job removes exactly that job's record: every
\* other record is left as it was, and afterwards the status request, the
\* download request and a second delete for the same id all answer 404.
\* Records leave the registry in no other way: a step that removes a record
\* is such a delete, and leaves every other record as it was.
C14_DeleteRemovesExactlyOneRecord ==
    [][\A j \in JobIds :
          /\ (jobs[j] # NoJob /\ get_current_job(lock) # j) =>
                LET c == cleanup_job(jobs, disk, j)
                IN  /\ delete_response(jobs, lock, j) = 200
                    /\ c.job_removed
                    /\ c.jobs[j] = NoJob
                    /\ \A k \in JobIds \ {j} : c.jobs[k] = jobs[k]
                    /\ status_response(c.jobs, lock, j).code = 404
                    /\ download_response(c.jobs, c.disk, j) = 404
                    /\ delete_response(c.jobs, lock, j) = 404
          /\ (jobs[j] # NoJob /\ jobs'[j] = NoJob) =>
                /\ delete_response(jobs, lock, j) = 200
                /\ \A k \in JobIds \ {j} : jobs'[k] = jobs[k]
                /\ status_response(jobs', lock', j).code = 404
                /\ download_response(jobs', disk', j) = 404
                /\ delete_response(jobs', lock', j) = 404]_vars

\* One job has been deleted while the record of the other is still there.
C14_Witness ==
    \E j, k \in JobIds :
        /\ j # k
        /\ task[j] = "ended"
        /\ jobs[j] = NoJob
        /\ jobs[k] # NoJob
        /\ delete_response(jobs, lock, j) = 404

\* ---------------------------------------------------------------------------
\* C15: deleting a completed job deletes that job's files: after the delete
\* neither its stored upload (upload_filename) nor its output artifact
\* (output_filename) is in storage, and the cleanup report marks a category
\* deleted exactly when a file of that category was removed.
C15_DeleteRemovesJobFiles ==
    [][\A j \in JobIds :
          (jobs[j] # NoJob /\ jobs[j].status = "completed" /\ jobs'[j] = NoJob) =>
              LET c == cleanup_job(jobs, disk, j)
              IN  /\ UploadPath(jobs[j].upload_filename) \notin disk'
                  /\ jobs[j].output_filename \notin disk'
                  /\ c.upload_deleted <=> (\E p \in disk \ disk' : p[1] = "upload")
                  /\ c.output_deleted <=> (\E p \in disk \ disk' : p[1] # "upload")]_vars

\* ---------------------------------------------------------------------------
\* C16: an upload request that arrives while the lock is held is answered
\* with 429 and has no effect: no file is stored, no job record is created
\* and no background task is scheduled.
Arrives(u) == upload[u].pc = "idle" /\ upload'[u].pc # "idle"

NoUploadEffect(u) ==
    /\ upload'[u].pc = "refused"
    /\ disk' = disk
    /\ jobs' = jobs
    /\ issued' = issued
    /\ task' = task

C16_BusyUploadRefused ==
    [][\A u \in Uploads :
          (Arrives(u) /\ is_locked(lock)) =>
              /\ upload'[u].code = 429
              /\ NoUploadEffect(u)]_vars

\* C16 as amended: the filename check comes before the lock check, so a
\* request without a filename is answered 400 also while the lock is held;
\* every request that carries a filename and arrives while the lock is held
\* is answered 429.  Neither has any effect.
C16_BusyUploadRefusedAmended ==
    [][\A u \in Uploads :
          (Arrives(u) /\ is_locked(lock)) =>
              /\ upload'[u].code = IF upload'[u].suffix = "nofilename" THEN 400 ELSE 429
              /\ NoUploadEffect(u)]_vars

\* A request was answered 429 while a job holds the lock, and left no file.
C16_Witness ==
    \E u \in Uploads :
        /\ upload[u].pc = "refused"
        /\ upload[u].code = 429
        /\ is_locked(lock)
        /\ UploadPath(u) \notin disk
        /\ \A j \in JobIds : jobs[j] # NoJob => jobs[j].upload_filename # u

\* ---------------------------------------------------------------------------
\* C17: when the upload-time validation of a submitted file fails, for
\* whatever reason, no job record is created, no background task is
\* scheduled, and the stored copy of the upload is gone when the error
\* response is returned.
C17_FailedValidationLeavesNothing ==
    [][\A u \in Uploads :
          (upload[u].pc = "saving" /\ upload'[u].pc = "refused") =>
              /\ jobs' = jobs
              /\ issued' = issued
              /\ task' = task
              /\ UploadPath(u) \notin disk']_vars

C19_ProgressMonotone ==
    \A j \in JobIds :
        LET h == hist[j]
        IN  /\ \A i \in 1..Len(h) : h[i][2] \in 0..100
            /\ \A i \in 1..(Len(h) - 1) :
                  /\ h[i + 1][2] < h[i][2] => h[i + 1][1] = "failed"
                  /\ h[i + 1][1] = "failed" => h[i + 1][2] = 0
                  /\ h[i + 1][1] \in {"created", "validating", "validated", "processing"}
                        => h[i + 1][2] >= h[i][2]

\* A job climbed to progress 90 and was then set to failed with progress 0.
C19_Witness ==
    \E j \in JobIds :
        /\ Len(hist[j]) >= 2
        /\ hist[j][Len(hist[j])] = <<"failed", 0>>
        /\ hist[j][Len(hist[j]) - 1] = <<"processing", 90>>
        /\ jobs[j].progress = 0

\* ---------------------------------------------------------------------------
\* C20: every create_job call returns an id that is not the key of a record
\* in the registry and that no earlier call returned; the call inserts one
\* new record in status created with progress 0 and leaves every existing
\* record as it was.
C20_CreateJobFreshId ==
    [][(probe'.calls # probe.calls /\ probe'.op = "create_job") =>
          LET id == probe'.ret
          IN  /\ jobs[id] = NoJob
              /\ id \notin probe.returned
              /\ jobs'[id].status = "created"
              /\ jobs'[id].progress = 0
              /\ \A k \in JobIds \ {id} : jobs'[k] = jobs[k]]_vars

\* ---------------------------------------------------------------------------
\* C21: for every job id that is not in the registry, get_job_status answers
\* absent, and an update_job_status call for it, whatever status and fields
\* it carries, leaves the whole registry as it was: no record is created.
C21_UpdateOfAbsentIsNoOp ==
    [][(/\ probe'.calls # probe.calls
        /\ probe'.op = "update_job_status"
        /\ probe'.job \notin {j \in JobIds : jobs[j] # NoJob}) =>
          /\ get_job_status(jobs, probe'.job) = NoJob
          /\ jobs' = jobs
          /\ hist' = hist]_vars

\* An update for an absent id was made while another record was present.
C21_Witness ==
    /\ probe.op = "update_job_status"
    /\ probe.before[probe.job] = NoJob
    /\ jobs[probe.job] = NoJob
    /\ \E k \in JobIds : jobs[k] # NoJob /\ jobs[k] = probe.before[k]

\* ---------------------------------------------------------------------------
\* C22: a download request returns the video (200) only when the job
\* exists, its status is completed and its output artifact is in storage;
\* it answers 404 for an unknown job, 400 for a job in any other status, and
\* 404 for a completed job whose artifact is missing.
C22_DownloadAnswers ==
    \A j \in JobIds :
        LET r == download_response(jobs, disk, j)
        IN  /\ r = 200 => /\ jobs[j] # NoJob
                          /\ jobs[j].status = "completed"
                          /\ jobs[j].output_filename \in disk
            /\ jobs[j] = NoJob => r = 404
            /\ (jobs[j] # NoJob /\ jobs[j].status # "completed") => r = 400
            /\ (/\ jobs[j] # NoJob
                /\ jobs[j].status = "completed"
                /\ jobs[j].output_filename \notin disk) => r = 404
            /\ (/\ jobs[j] # NoJob
                /\ jobs[j].status = "completed"
                /\ jobs[j].output_filename \in disk) => r = 200

\* A job is completed, its artifact is not in storage, the download answers 404.
C22_Witness ==
    \E j \in JobIds :
        /\ jobs[j] # NoJob
        /\ jobs[j].status = "completed"
        /\ jobs[j].output_filename # NoFile
        /\ jobs[j].output_filename \notin disk
        /\ download_response(jobs, disk, j) = 404

\* ---------------------------------------------------------------------------
\* C23: within a job's background task the lock acquisition is attempted
\* only after the job has passed re-validation and reached status
\* processing with its output filename assigned and progress 30; a job
\* becomes rejected only from that point, with file_info attached.
Attempted(j) ==
    \/ acquires'[j] # acquires[j]
    \/ jobs'[j] # NoJob /\ jobs'[j].status = "rejected" /\ jobs[j].status # "rejected"

C23_AcquireAfterProcessing ==
    [][\A j \in JobIds :
          (jobs[j] # NoJob /\ Attempted(j)) =>
              /\ jobs[j].status = "processing"
              /\ jobs[j].progress = 30
              /\ jobs[j].output_filename # NoFile
              /\ jobs[j].file_info]_vars

\* C23 as amended: the acquisition is the first thing the task does, before
\* re-validation: it is attempted on a record in status created with
\* progress 0, no file_info and no output filename, and a job becomes
\* rejected only from created, with all of these still unset.
C23_AcquireBeforeValidation ==
    [][\A j \in JobIds :
          (jobs[j] # NoJob /\ Attempted(j)) =>
              /\ jobs[j].status = "created"
              /\ jobs[j].progress = 0
              /\ jobs[j].output_filename = NoFile
              /\ ~jobs[j].file_info
              /\ jobs'[j].status = "rejected" =>
                    /\ hist'[j] = << <<"created", 0>>, <<"rejected", 0>> >>
                    /\ jobs'[j].output_filename = NoFile
                    /\ ~jobs'[j].file_info]_vars

\* One job was rejected straight from created while the other holds the lock.
C23_Witness ==
    \E j, k \in JobIds :
        /\ j # k
        /\ jobs[j] # NoJob
        /\ jobs[j].status = "rejected"
        /\ hist[j] = << <<"created", 0>>, <<"rejected", 0>> >>
        /\ get_current_job(lock) = k
        /\ acquires[k] = 1

\* ---------------------------------------------------------------------------
\* C24: the three stages run strictly in the order 1, 2, 3; stage k+1 is
\* started only when stage k exited with code zero (and so left its output
\* file); after a stage exited non-zero no further stage is started, and
\* when the task ends the job's error is the message built from that
\* stage's stderr text.
Stages == {"stage1", "stage2", "stage3"}

ErrorWithStderr(text) == "FFmpeg processing error: FFmpeg failed: " \o text

StageOrder(j) ==
    LET u == jobs[j].upload_filename
        suffix == upload[u].suffix
    IN  /\ worker'[j].pc = "stage1" => worker[j].pc \in {"none", "stage1"}
        /\ worker'[j].pc = "stage2" => \/ worker[j].pc = "stage2"
                                       \/ /\ worker[j].pc = "stage1"
                                          /\ TempProcessed(u, suffix) \in disk'
        /\ worker'[j].pc = "stage3" => \/ worker[j].pc = "stage3"
                                       \/ /\ worker[j].pc = "stage2"
                                          /\ BlackScreenFile(u, suffix) \in disk'
        /\ worker[j].pc \in {"returned", "joined"} => worker'[j].pc \notin Stages

StageExitedNonZero(j) ==
    /\ worker[j].pc = "returned"
    /\ worker[j].rc # 0
    /\ worker[j].stderr \in {StepFailed(k) : k \in Stages}

C24_StagesInOrderAndStderrKept ==
    [][\A j \in JobIds :
          jobs[j] # NoJob =>
              /\ StageOrder(j)
              /\ (StageExitedNonZero(j) /\ task'[j] = "ended") =>
                    /\ jobs'[j].status = "failed"
                    /\ jobs'[j].error = ErrorWithStderr(worker[j].stderr)]_vars

\* C24 as amended: the same, for a stage that exited non-zero before the
\* deadline expired; when the deadline had expired before the worker came
\* back, the error is the timeout message and the stage's stderr is dropped.
C24_StderrKeptUnlessTimedOut ==
    [][\A j \in JobIds :
          jobs[j] # NoJob =>
              /\ StageOrder(j)
              /\ (StageExitedNonZero(j) /\ task'[j] = "ended") =>
                    /\ jobs'[j].status = "failed"
                    /\ jobs'[j].error = IF task[j] = "shutdown" THEN TimeoutError
                                        ELSE ErrorWithStderr(worker[j].stderr)]_vars

\* Stage 2 exited non-zero after stage 1 succeeded; the job failed with
\* stage 2's stderr and stage 3 left no file.
C24_Witness ==
    \E j \in JobIds :
        /\ jobs[j] # NoJob
        /\ jobs[j].status = "failed"
        /\ jobs[j].error = ErrorWithStderr(StepFailed("stage2"))
        /\ <<"temp", jobs[j].upload_filename>> \in disk
        /\ <<"black", jobs[j].upload_filename>> \notin disk
        /\ jobs[j].output_filename \notin disk

\* ---------------------------------------------------------------------------
\* C25: full_video_validation applies its checks in the order extension,
\* existence, size, probe, duration and reports the first failing check
\* only: whatever the outcomes of the five checks, it performs the checks up
\* to and including the first one that fails and none after it (so no probe
\* is run after an earlier failure), and a duration equal to the minimum or
\* to the maximum bound is accepted.
CheckOrder == <<"extension", "existence", "size", "probe", "duration">>

\* The checks that would fail on these inputs, each taken by itself.
FailingChecks(in) ==
    {k \in 1..5 :
        \/ k = 1 /\ in.suffix \notin {"mp4", "mov"}
        \/ k = 2 /\ (~in.exists \/ ~in.access_ok)
        \/ k = 3 /\ in.file_size > MAX_FILE_SIZE
        \/ k = 4 /\ in.probe_result # "ok"
        \/ k = 5 /\ (in.duration < MIN_VIDEO_DURATION \/ in.duration > MAX_VIDEO_DURATION)}

FirstFailing(in) ==
    IF FailingChecks(in) = {} THEN 0
    ELSE CHOOSE k \in FailingChecks(in) : \A m \in FailingChecks(in) : k <= m

DetailOf(k, in) ==
    IF k = 0 THEN "ok"
    ELSE IF k = 1 THEN "Unsupported file type"
    ELSE IF k = 2 THEN (IF in.access_ok THEN "File not found" ELSE "OSError")
    ELSE IF k = 3 THEN "File too large"
    ELSE IF k = 4 THEN "get_video_info: " \o in.probe_result
    ELSE "Video duration must be between"

C25_FirstFailingCheckOnly ==
    probe.op = "full_video_validation" =>
        LET in == probe.in
            first == FirstFailing(in)
        IN  /\ probe.out.checks = SubSeq(CheckOrder, 1, IF first = 0 THEN 5 ELSE first)
            /\ probe.out.result = DetailOf(first, in)
            /\ (first # 0 /\ first < 4) => \A i \in 1..Len(probe.out.checks) :
                                              probe.out.checks[i] # "probe"
            /\ (/\ FailingChecks(in) \subseteq {5}
                /\ in.duration \in {MIN_VIDEO_DURATION, MAX_VIDEO_DURATION})
                  => probe.out.result = "ok"
            /\ (probe.out.result = "ok") <=>
                  (full_video_validation(in.suffix, in.exists, in.access_ok,
                       validate_file_size(in.file_size), in.probe_result,
                       duration_in_range(in.duration)) = "ok")

\* A file of exactly the maximum size and the maximum duration was accepted.
C25_Witness ==
    /\ probe.op = "full_video_validation"
    /\ probe.in.file_size = MAX_FILE_SIZE
    /\ probe.in.duration = MAX_VIDEO_DURATION
    /\ probe.out.result = "ok"
    /\ Len(probe.out.checks) = 5

\* ---------------------------------------------------------------------------
\* C26: in every reachable state a job's started_at is set only if the job
\* has acquired the lock at some earlier point; a job in status created or
\* rejected has started_at unset.
C26_StartedAtOnlyAfterAcquire ==
    \A j \in JobIds :
        jobs[j] # NoJob =>
            /\ jobs[j].started_at # NoTime => acquires[j] >= 1
            /\ jobs[j].status \in {"created", "rejected"} => jobs[j].started_at = NoTime

\* One job was rejected and has no started_at; the holder's started_at is set.
C26_Witness ==
    \E j, k \in JobIds :
        /\ jobs[j] # NoJob /\ jobs[k] # NoJob
        /\ jobs[j].status = "rejected"
        /\ jobs[j].started_at = NoTime
        /\ acquires[j] = 0
        /\ acquires[k] = 1
        /\ jobs[k].started_at # NoTime

\* ---------------------------------------------------------------------------
\* C27: in every reachable state a job's error field is non-null if and
\* only if its status is failed or rejected.
C27_ErrorIffFailedOrRejected ==
    \A j \in JobIds :
        jobs[j] # NoJob =>
            (jobs[j].error # NoError <=> jobs[j].status \in {"failed", "rejected"})

\* One job failed with its error recorded; the other one completed without.
C27_Witness ==
    \E j, k \in JobIds :
        /\ jobs[j] # NoJob /\ jobs[k] # NoJob
        /\ jobs[j].status = "failed"
        /\ jobs[j].error # NoError
        /\ jobs[k].status = "completed"
        /\ jobs[k].error = NoError

\* ---------------------------------------------------------------------------
\* C28: in every state between two lock operations the lock's bookkeeping
\* agrees: the underlying lock is locked iff is_processing is true, iff
\* current_job_id is set, iff the processing start time is set; so
\* get_status reports a processing duration exactly when the lock is held.
C28_LockBookkeepingConsistent ==
    LET st == get_status(lock, clock)
    IN  /\ is_locked(lock) <=> st.is_processing
        /\ is_locked(lock) <=> (st.current_job_id # NoJobId)
        /\ is_locked(lock) <=> (lock.processing_start_time # NoTime)
        /\ is_locked(lock) <=> (st.processing_duration # NoDuration)
        /\ st.current_job_id = get_current_job(lock)

\* The lock is held again after it was held and released once.
C28_Witness ==
    /\ probe.op = "acquire"
    /\ probe.ret
    /\ probe.prev = "release"
    /\ probe.calls >= 3
    /\ is_locked(lock)
    /\ get_status(lock, clock).processing_duration # NoDuration

\* ---------------------------------------------------------------------------
\* C29: the lock is only ever released by the task of the job that holds it.
\* A step that takes the lock away from its holder j is a step of j's own
\* task, which ends with it and counts one release; a task counts a release
\* only for a hold of its own, and never a second one: the conditional
\* release in the failure handler, which runs after the `finally` release,
\* finds the lock unlocked and clears nobody's hold.
C29_OnlyHolderReleases ==
    [][\A j \in JobIds :
          /\ (get_current_job(lock) = j /\ get_current_job(lock') # j) =>
                /\ task[j] \in {"awaiting", "shutdown"}
                /\ task'[j] = "ended"
                /\ releases'[j] = releases[j] + 1
                /\ ~is_locked(lock')
                /\ \A k \in JobIds \ {j} : task'[k] = task[k] /\ releases'[k] = releases[k]
          /\ releases'[j] # releases[j] =>
                /\ releases'[j] = releases[j] + 1
                /\ get_current_job(lock) = j \/ acquires'[j] = acquires[j] + 1
                /\ get_current_job(lock) \in {NoJobId, j}]_vars

\* A job went through the failure handler and released once; afterwards the
\* other job acquired the lock and still holds it.
C29_Witness ==
    \E j, k \in JobIds :
        /\ j # k
        /\ jobs[j] # NoJob
        /\ jobs[j].status = "failed"
        /\ acquires[j] = 1
        /\ releases[j] = 1
        /\ get_current_job(lock) = k
        /\ lock.processing_start_time > jobs[j].started_at

\* ---------------------------------------------------------------------------
\* C30: a transcode stage of job J runs only while J holds the lock: once
\* the lock has been released for J, also after a pipeline timeout, the
\* worker that executes J's stages has returned; so stages of two different
\* jobs never run at the same time.
StageRunning(j) == worker[j].pc \in {"stage1", "stage2", "stage3"}

C30_StagesOnlyUnderLock ==
    /\ \A j \in JobIds : StageRunning(j) => get_current_job(lock) = j
    /\ Cardinality({j \in JobIds : StageRunning(j)}) <= 1

\* One job's pipeline timed out and its task has released the lock; the
\* other job now holds the lock and runs a stage.
C30_Witness ==
    \E j, k \in JobIds :
        /\ j # k
        /\ jobs[j] # NoJob
        /\ jobs[j].error = TimeoutError
        /\ task[j] = "ended"
        /\ ~StageRunning(j)
        /\ StageRunning(k)
        /\ get_current_job(lock) = k

\* ---------------------------------------------------------------------------
\* C31: a job reaches status completed only if all three stages were run
\* for it in order and each exited with code zero before the deadline, and
\* progress 90 is recorded only after that; a job whose pipeline timed out
\* or had a failing stage is never completed.
PipelineSucceeded(j) ==
    /\ worker[j].pc = "returned"
    /\ worker[j].rc = 0
    /\ task[j] = "awaiting"

Records90(j) ==
    \E i \in (Len(hist[j]) + 1)..Len(hist'[j]) : hist'[j][i] = <<"processing", 90>>

C31_CompletedOnlyAfterThreeStages ==
    [][\A j \in JobIds :
          jobs[j] # NoJob =>
              /\ StageOrder(j)
              /\ (worker'[j] # worker[j] /\ worker'[j].pc = "returned" /\ worker'[j].rc = 0)
                    => worker[j].pc = "stage3"
              /\ Records90(j) => PipelineSucceeded(j)
              /\ (jobs'[j].status = "completed" /\ jobs[j].status # "completed") =>
                    /\ PipelineSucceeded(j)
                    /\ Records90(j)
              /\ (\/ task[j] = "shutdown"
                  \/ worker[j].pc = "returned" /\ worker[j].rc # 0
                  \/ jobs[j].status = "failed") => jobs'[j].status # "completed"]_vars

\* A job completed with 90 on record, and the other job's pipeline had a
\* failing stage and ended failed.
C31_Witness ==
    \E j, k \in JobIds :
        /\ jobs[j] # NoJob /\ jobs[k] # NoJob
        /\ jobs[j].status = "completed"
        /\ \E i \in 1..Len(hist[j]) : hist[j][i] = <<"processing", 90>>
        /\ jobs[k].status = "failed"
        /\ jobs[k].error \in {ErrorWithStderr(StepFailed(s)) : s \in Stages}

\* ---------------------------------------------------------------------------
\* C32: if a job's record is deleted after the upload was accepted but
\* before its background task starts, the task has no effect when it runs:
\* it does not acquire the slot, does not recreate the record and does not
\* run any pipeline stage.
DeletedBeforeStart(j) == task[j] = "scheduled" /\ jobs[j] = NoJob

TaskOfDeletedRan(j) ==
    /\ task[j] = "ended"
    /\ task_exc[j] = "HTTP_404"

C32_TaskOfDeletedJobHasNoEffect ==
    [][\A j \in JobIds :
          /\ (DeletedBeforeStart(j) /\ task'[j] # task[j]) =>
                /\ task'[j] = "ended"
                /\ task_exc'[j] = "HTTP_404"
                /\ lock' = lock
                /\ acquires' = acquires
                /\ releases' = releases
                /\ jobs' = jobs
                /\ hist' = hist
                /\ worker' = worker
                /\ disk' = disk
          /\ TaskOfDeletedRan(j) =>
                /\ jobs'[j] = NoJob
                /\ acquires'[j] = 0
                /\ worker'[j].pc = "none"
                /\ get_current_job(lock') # j]_vars

\* The task of a deleted job has run while the other job held the slot and
\* had a stage running.
C32_Witness ==
    \E j, k \in JobIds :
        /\ j # k
        /\ TaskOfDeletedRan(j)
        /\ jobs[j] = NoJob
        /\ acquires[j] = 0
        /\ get_current_job(lock) = k
        /\ worker[k].pc \in {"stage1", "stage2", "stage3"}

====
